---------------------------- MODULE Spec2Model ----------------------------
(***************************************************************************)
(* A model of the speech I/O bridge of EB_vocode:                          *)
(*   - start_outbound_call / api_start_outbound_call   (src/main.py,       *)
(*     src/main_aws.py): the outbound-call wrapper;                        *)
(*   - MyTranscriptResultHandler / transcribe_audio_stream (src/main1.py): *)
(*     the streaming transcription path;                                   *)
(*   - AWSTranscribeHelper.transcribe_audio (src/main_aws.py): the         *)
(*     submit-and-poll transcription path.                                 *)
(* Python strings are sequences of one-character strings; Optional[str]    *)
(* values are tagged records.                                              *)
(***************************************************************************)
EXTENDS Integers, Sequences, FiniteSets, TLC

VARIABLES
    \* ---- outbound call wrapper (main.py / main_aws.py) ----
    cPc,            \* position of the request being served
    cArg,           \* to_phone of the request being served
    cExc,           \* exception in flight inside start_outbound_call
    config,         \* process-wide configuration (module globals)
    constructed,    \* OutboundCall objects constructed so far
    started,        \* destinations whose OutboundCall.start() returned
    errorLog,       \* logger.error records of start_outbound_call
    reqTrace,       \* what the request being served has done so far
    served,         \* requests that got the {"status": "success"} response
    escaped,        \* requests whose exception left start_outbound_call
    \* ---- streaming transcription (main1.py) ----
    sPc,            \* position of transcribe_audio_stream
    transcription,  \* MyTranscriptResultHandler.transcription
    finalized,      \* history: the non-partial results handled, in order
    nEvents,        \* history: events delivered to the handler
    sessions,       \* start_stream_transcription calls issued
    sErrors,        \* logger.error records of transcribe_audio_stream
    sResult,        \* what transcribe_audio_stream handed to its caller
    \* ---- batch transcription (main_aws.py) ----
    now,            \* int(time.time()), saturating at MaxClock
    jobs,           \* provider side: job name -> status
    bPc,            \* position of each transcribe_audio invocation
    jobName,        \* job_name of each invocation
    status,         \* TranscriptionJobStatus last returned to each invocation
    ops,            \* history per invocation: provider calls issued
    waited,         \* history per invocation: time slept since its last query
    bErrors,        \* logger.error records of each invocation
    bResult         \* what each invocation handed to its caller

callVars   == <<cPc, cArg, cExc, config, constructed, started, errorLog,
                reqTrace, served, escaped>>
streamVars == <<sPc, transcription, finalized, nEvents, sessions, sErrors, sResult>>
batchVars  == <<now, jobs, bPc, jobName, status, ops, waited, bErrors, bResult>>
vars       == <<callVars, streamVars, batchVars>>

-----------------------------------------------------------------------------
(* Python values *)

PyNone == [kind |-> "None"]
PyStr(s) == [kind |-> "str", s |-> s]

\* What a function hands to its caller: a value, or an exception.
Returned(v) == [kind |-> "returned", value |-> v]
Raised(cls) == [kind |-> "raised", cls |-> cls]
Running     == [kind |-> "running"]

-----------------------------------------------------------------------------
(* Outbound call wrapper *)

\* Requests served in one run.
MaxRequests == 3

\* Form values of to_phone: absent, empty, and two numbers.
Destinations ==
    {PyNone, PyStr(""), PyStr("+15551234567"), PyStr("+15557654321")}

\* Exception subclasses the telephony collaborator raises.
CollaboratorFaults == {"ValueError", "RuntimeError"}

DefaultConfig ==
    [base_url |-> "BASE_URL", from_phone |-> "TWILIO_PHONE",
     config_manager |-> "CONFIG_MANAGER", agent_config |-> "AGENT_CONFIG"]

\* A variant of the test: `if to_phone is not None:`.
NotNoneOnly(v) == v.kind = "str"

\* `if to_phone:` -- None and "" are falsy.
Truthy(v) == v.kind = "str" /\ v.s # ""

\* A variant of the clause: `except ValueError as e:`.
CatchesValueErrorOnly(cls) == cls = "ValueError"

\* `except Exception as e:` -- every collaborator fault is an Exception.
Catches(cls) == cls \in {"Exception", "ValueError", "RuntimeError"}

NewTrace == [constructed |-> 0, started |-> 0, errors |-> 0, faults |-> 0]

Bump(t, f) == [t EXCEPT ![f] = @ + 1]

\* api_start_outbound_call is entered with a form value.
Request(v) ==
    /\ cPc = "idle"
    /\ served + escaped < MaxRequests
    /\ cPc' = "guard"
    /\ cArg' = v
    /\ reqTrace' = NewTrace
    /\ UNCHANGED <<cExc, config, constructed, started, errorLog, served, escaped>>
    /\ UNCHANGED <<streamVars, batchVars>>

\* start_outbound_call: `if to_phone:`
Guard ==
    /\ cPc = "guard"
    /\ cPc' = IF Truthy(cArg) THEN "construct" ELSE "return"
    /\ UNCHANGED <<cArg, cExc, config, constructed, started, errorLog,
                   reqTrace, served, escaped>>
    /\ UNCHANGED <<streamVars, batchVars>>

\* OutboundCall(base_url=..., to_phone=..., ...) inside the try block.
Construct ==
    /\ cPc = "construct"
    /\ \/ /\ constructed' = Append(constructed,
                                   [to_phone |-> cArg.s,
                                    from_phone |-> config.from_phone,
                                    base_url |-> config.base_url])
          /\ reqTrace' = Bump(reqTrace, "constructed")
          /\ cPc' = "start"
          /\ UNCHANGED cExc
       \/ \E cls \in CollaboratorFaults :
            /\ cExc' = cls
            /\ reqTrace' = Bump(reqTrace, "faults")
            /\ cPc' = "unwind"
            /\ UNCHANGED constructed
    /\ UNCHANGED <<cArg, config, started, errorLog, served, escaped>>
    /\ UNCHANGED <<streamVars, batchVars>>

\* outbound_call.start() inside the try block (then logger.debug).
Start ==
    /\ cPc = "start"
    /\ \/ /\ started' = Append(started, cArg.s)
          /\ reqTrace' = Bump(reqTrace, "started")
          /\ cPc' = "return"
          /\ UNCHANGED cExc
       \/ \E cls \in CollaboratorFaults :
            /\ cExc' = cls
            /\ reqTrace' = Bump(reqTrace, "faults")
            /\ cPc' = "unwind"
            /\ UNCHANGED started
    /\ UNCHANGED <<cArg, config, constructed, errorLog, served, escaped>>
    /\ UNCHANGED <<streamVars, batchVars>>

\* The except clause: logger.error and fall through, or (an exception the
\* clause does not name) the exception leaves start_outbound_call and the
\* route handler, and the request ends without its response.
Unwind ==
    /\ cPc = "unwind"
    /\ IF Catches(cExc)
       THEN /\ errorLog' = Append(errorLog, cExc)
            /\ reqTrace' = Bump(reqTrace, "errors")
            /\ cPc' = "return"
            /\ UNCHANGED escaped
       ELSE /\ escaped' = escaped + 1
            /\ cPc' = "idle"
            /\ UNCHANGED <<errorLog, reqTrace>>
    /\ cExc' = "none"
    /\ UNCHANGED <<cArg, config, constructed, started, served>>
    /\ UNCHANGED <<streamVars, batchVars>>

\* start_outbound_call returns; api_start_outbound_call answers success.
Return ==
    /\ cPc = "return"
    /\ cPc' = "idle"
    /\ served' = served + 1
    /\ UNCHANGED <<cArg, cExc, config, constructed, started, errorLog,
                   reqTrace, escaped>>
    /\ UNCHANGED <<streamVars, batchVars>>

InitCall ==
    /\ cPc = "idle"
    /\ cArg = PyNone
    /\ cExc = "none"
    /\ config = DefaultConfig
    /\ constructed = <<>>
    /\ started = <<>>
    /\ errorLog = <<>>
    /\ reqTrace = NewTrace
    /\ served = 0
    /\ escaped = 0

NextCall ==
    \/ \E v \in Destinations : Request(v)
    \/ Guard
    \/ Construct
    \/ Start
    \/ Unwind
    \/ Return

-----------------------------------------------------------------------------
(* Streaming transcription: MyTranscriptResultHandler, transcribe_audio_stream *)

\* TranscriptEvents delivered in one session.
MaxEvents == 2

SPACE == <<" ">>

\* Transcript texts of alternatives.
Words == {<<"a">>, <<"b">>}

\* Shapes of a TranscriptEvent: results per event, alternatives per result.
ResultCounts == 0..2
AltCounts == 1..2

SeqsOf(S, counts) == UNION {[1..n -> S] : n \in counts}

Alternatives == [transcript : Words]
Results == [is_partial : BOOLEAN, alternatives : SeqsOf(Alternatives, AltCounts)]
Events == [results : SeqsOf(Results, ResultCounts)]

\* sep.join(strs)
RECURSIVE Join(_, _)
Join(sep, strs) ==
    IF Len(strs) = 0 THEN <<>>
    ELSE IF Len(strs) = 1 THEN strs[1]
    ELSE strs[1] \o sep \o Join(sep, Tail(strs))

\* " ".join([alt.transcript for alt in result.alternatives])
ResultText(result) ==
    Join(SPACE, [k \in 1..Len(result.alternatives) |->
                    result.alternatives[k].transcript])

\* A variant of the update: `self.transcription = text`.
Overwrite(tr, text) == text

\* self.transcription += text
Accumulate(tr, text) == tr \o text

\* The loop of handle_transcript_event over transcript_event.transcript.results.
RECURSIVE HandleResults(_, _)
HandleResults(tr, results) ==
    IF Len(results) = 0 THEN tr
    ELSE HandleResults(
            IF results[1].is_partial = FALSE
            THEN Accumulate(tr, ResultText(results[1]))
            ELSE tr,
            Tail(results))

handle_transcript_event(tr, event) == HandleResults(tr, event.results)

\* History: the non-partial results of an event, in order.
NonPartial(results) == SelectSeq(results, LAMBDA r : r.is_partial = FALSE)

\* A variant of the clause: `return handler.transcription` instead of `raise`.
StreamSwallows(tr, cls) == Returned(tr)

\* The except clause of transcribe_audio_stream: logger.error, then `raise`.
StreamExcept(tr, cls) == Raised(cls)

StreamFaults == {"BadRequestException", "ServiceUnavailableException"}

\* await transcribe_client.start_stream_transcription(...), then the handler
\* is constructed with an empty transcription.
StartStream ==
    /\ sPc = "idle"
    /\ sessions' = sessions + 1
    /\ \/ /\ sPc' = "handling"
          /\ transcription' = <<>>
          /\ UNCHANGED sResult
       \/ \E cls \in StreamFaults :
            /\ sPc' = "except"
            /\ sResult' = Raised(cls)
            /\ UNCHANGED transcription
    /\ UNCHANGED <<finalized, nEvents, sErrors>>
    /\ UNCHANGED <<callVars, batchVars>>

\* handle_events() delivers the next TranscriptEvent to the handler.
HandleEvent(event) ==
    /\ sPc = "handling"
    /\ nEvents < MaxEvents
    /\ transcription' = handle_transcript_event(transcription, event)
    /\ finalized' = finalized \o NonPartial(event.results)
    /\ nEvents' = nEvents + 1
    /\ UNCHANGED <<sPc, sessions, sErrors, sResult>>
    /\ UNCHANGED <<callVars, batchVars>>

\* The provider fails the session while handle_events() is awaiting.
StreamFault(cls) ==
    /\ sPc = "handling"
    /\ sPc' = "except"
    /\ sResult' = Raised(cls)
    /\ UNCHANGED <<transcription, finalized, nEvents, sessions, sErrors>>
    /\ UNCHANGED <<callVars, batchVars>>

\* The event source is exhausted: `return handler.transcription`.
EndOfStream ==
    /\ sPc = "handling"
    /\ sPc' = "done"
    /\ sResult' = Returned(transcription)
    /\ UNCHANGED <<transcription, finalized, nEvents, sessions, sErrors>>
    /\ UNCHANGED <<callVars, batchVars>>

\* except Exception as e: logger.error(...); raise
StreamHandler ==
    /\ sPc = "except"
    /\ sErrors' = sErrors + 1
    /\ sResult' = StreamExcept(transcription, sResult.cls)
    /\ sPc' = "done"
    /\ UNCHANGED <<transcription, finalized, nEvents, sessions>>
    /\ UNCHANGED <<callVars, batchVars>>

InitStream ==
    /\ sPc = "idle"
    /\ transcription = <<>>
    /\ finalized = <<>>
    /\ nEvents = 0
    /\ sessions = 0
    /\ sErrors = 0
    /\ sResult = Running

NextStream ==
    \/ StartStream
    \/ \E event \in Events : HandleEvent(event)
    \/ \E cls \in StreamFaults : StreamFault(cls)
    \/ EndOfStream
    \/ StreamHandler

-----------------------------------------------------------------------------
(* Batch transcription: AWSTranscribeHelper.transcribe_audio *)

\* Concurrent invocations of transcribe_audio.
NumInvocations == 2

\* Clock readings 0..MaxClock-1 are exact; MaxClock stands for every later
\* reading, and no invocation is entered once the clock has reached it.
MaxClock == 2

\* A variant of the wait: time.sleep(1).
OneSecond == 5 - 4

\* time.sleep(5)
POLL_INTERVAL == 5

Invocations == 1..NumInvocations

\* f"transcription_job_{int(time.time())}"
JobNameAt(t) == <<"transcription_job_", t>>
NoName == <<>>
JobNames == {JobNameAt(t) : t \in 0..(MaxClock - 1)}

Min(a, b) == IF a <= b THEN a ELSE b

\* A variant of the test: `if status[...] == "COMPLETED": break`.
CompletedOnly(s) == s = "COMPLETED"

\* `if status[...] in ["COMPLETED", "FAILED"]: break`
BreaksLoop(s) == s \in {"COMPLETED", "FAILED"}

\* A variant of the test: the result is fetched whatever the status.
FetchAlways(s) == TRUE

\* `if status[...] == "COMPLETED":` -- otherwise raise Exception(...)
ShouldFetch(s) == s = "COMPLETED"

\* A variant of the clause: no `raise`, so the function returns None.
BatchSwallows(cls) == Returned(PyNone)

\* The except clause of transcribe_audio: logger.error, then `raise`.
BatchExcept(cls) == Raised(cls)

\* The transcript document of a job, as requests.get(...).json() yields it.
TranscriptOf(name) == [transcript_of |-> name]

NewOps == [submits |-> 0, submitted |-> FALSE, fetches |-> 0,
           slept |-> FALSE, last |-> "none"]

\* transcribe_audio is entered: job_name is derived from the clock.
Begin(i) ==
    /\ bPc[i] = "idle"
    /\ now < MaxClock
    /\ jobName' = [jobName EXCEPT ![i] = JobNameAt(now)]
    /\ bPc' = [bPc EXCEPT ![i] = "submit"]
    /\ UNCHANGED <<now, jobs, status, ops, waited, bErrors, bResult>>
    /\ UNCHANGED <<callVars, streamVars>>

\* An exception raised inside the try block reaches the except clause:
\* logger.error(...), then `raise`, and the invocation has ended.
Fails(i, cls) ==
    /\ bErrors' = [bErrors EXCEPT ![i] = @ + 1]
    /\ bResult' = [bResult EXCEPT ![i] = BatchExcept(cls)]
    /\ bPc' = [bPc EXCEPT ![i] = "done"]

\* start_transcription_job(TranscriptionJobName=job_name, ...): the provider
\* rejects a name it already holds, and any call can fail.
Submit(i) ==
    /\ bPc[i] = "submit"
    /\ \/ /\ jobs[jobName[i]] = "NONE"
          /\ jobs' = [jobs EXCEPT ![jobName[i]] = "QUEUED"]
          /\ ops' = [ops EXCEPT ![i].submits = @ + 1, ![i].last = "submit",
                                ![i].submitted = TRUE]
          /\ bPc' = [bPc EXCEPT ![i] = "poll"]
          /\ UNCHANGED <<bErrors, bResult>>
       \/ \E cls \in IF jobs[jobName[i]] = "NONE"
                     THEN {"ClientError"}
                     ELSE {"ConflictException", "ClientError"} :
            /\ ops' = [ops EXCEPT ![i].submits = @ + 1, ![i].last = "submit"]
            /\ Fails(i, cls)
            /\ UNCHANGED jobs
    /\ UNCHANGED <<now, jobName, status, waited>>
    /\ UNCHANGED <<callVars, streamVars>>

\* get_transcription_job(TranscriptionJobName=job_name), the loop's test and,
\* once the loop is left, the test of the status: a status that is not
\* COMPLETED raises Exception("Transcription job failed.").
Poll(i) ==
    /\ bPc[i] = "poll"
    /\ ops' = [ops EXCEPT ![i].last = "query"]
    /\ \/ /\ status' = [status EXCEPT ![i] = jobs[jobName[i]]]
          /\ waited' = [waited EXCEPT ![i] = 0]
          /\ IF ~BreaksLoop(jobs[jobName[i]])
             THEN /\ bPc' = [bPc EXCEPT ![i] = "sleep"]
                  /\ UNCHANGED <<bErrors, bResult>>
             ELSE IF ShouldFetch(jobs[jobName[i]])
                  THEN /\ bPc' = [bPc EXCEPT ![i] = "fetch"]
                       /\ UNCHANGED <<bErrors, bResult>>
                  ELSE Fails(i, "Exception")
       \/ /\ Fails(i, "ClientError")
          /\ UNCHANGED <<status, waited>>
    /\ UNCHANGED <<now, jobs, jobName>>
    /\ UNCHANGED <<callVars, streamVars>>

\* time.sleep(5): the invocation is blocked while the clock advances.
Sleep(i) ==
    /\ bPc[i] = "sleep"
    /\ now' = Min(now + POLL_INTERVAL, MaxClock)
    /\ waited' = [waited EXCEPT ![i] = @ + POLL_INTERVAL]
    /\ ops' = [ops EXCEPT ![i].last = "sleep", ![i].slept = TRUE]
    /\ bPc' = [bPc EXCEPT ![i] = "poll"]
    /\ UNCHANGED <<jobs, jobName, status, bErrors, bResult>>
    /\ UNCHANGED <<callVars, streamVars>>

\* requests.get(transcript_url).json()[...]: the transcript is returned, or
\* the fetch fails.
Fetch(i) ==
    /\ bPc[i] = "fetch"
    /\ ops' = [ops EXCEPT ![i].fetches = @ + 1, ![i].last = "fetch"]
    /\ \/ /\ bResult' = [bResult EXCEPT ![i] = Returned(TranscriptOf(jobName[i]))]
          /\ bPc' = [bPc EXCEPT ![i] = "done"]
          /\ UNCHANGED bErrors
       \/ Fails(i, "RequestException")
    /\ UNCHANGED <<now, jobs, jobName, status, waited>>
    /\ UNCHANGED <<callVars, streamVars>>

\* One step of invocation i.
Step(i) ==
    \/ Begin(i)
    \/ Submit(i)
    \/ Poll(i)
    \/ Sleep(i)
    \/ Fetch(i)

\* The provider works on a job: QUEUED -> IN_PROGRESS -> COMPLETED | FAILED.
Advance(name) ==
    /\ \/ /\ jobs[name] = "QUEUED"
          /\ jobs' = [jobs EXCEPT ![name] = "IN_PROGRESS"]
       \/ /\ jobs[name] = "IN_PROGRESS"
          /\ \E s \in {"COMPLETED", "FAILED"} :
                jobs' = [jobs EXCEPT ![name] = s]
    /\ UNCHANGED <<now, bPc, jobName, status, ops, waited, bErrors, bResult>>
    /\ UNCHANGED <<callVars, streamVars>>

\* A second passes.
Tick ==
    /\ now < MaxClock
    /\ now' = now + 1
    /\ UNCHANGED <<jobs, bPc, jobName, status, ops, waited, bErrors, bResult>>
    /\ UNCHANGED <<callVars, streamVars>>

InitBatch ==
    /\ now = 0
    /\ jobs = [n \in JobNames |-> "NONE"]
    /\ bPc = [i \in Invocations |-> "idle"]
    /\ jobName = [i \in Invocations |-> NoName]
    /\ status = [i \in Invocations |-> "NONE"]
    /\ ops = [i \in Invocations |-> NewOps]
    /\ waited = [i \in Invocations |-> 0]
    /\ bErrors = [i \in Invocations |-> 0]
    /\ bResult = [i \in Invocations |-> Running]

NextBatch ==
    \/ \E i \in Invocations : Step(i)
    \/ \E name \in JobNames : Advance(name)
    \/ Tick

-----------------------------------------------------------------------------
(* Specifications *)

Init == InitCall /\ InitStream /\ InitBatch

Next == NextCall \/ NextStream \/ NextBatch

Spec == Init /\ [][Next]_vars

SpecCall == Init /\ [][NextCall]_vars

SpecStream == Init /\ [][NextStream]_vars

SpecBatch == Init /\ [][NextBatch]_vars

\* The scheduler keeps running some invocation that can take a step, and the
\* provider keeps working while it holds an unfinished job.
FairSpecBatch ==
    /\ SpecBatch
    /\ WF_vars(\E i \in Invocations : Submit(i) \/ Poll(i) \/ Sleep(i) \/ Fetch(i))
    /\ WF_vars(\E name \in JobNames : Advance(name))

-----------------------------------------------------------------------------
(* Properties of the outbound call wrapper (SpecCall) *)

\* The destinations the claims call absent or empty.
AbsentOrEmpty(v) == v = PyNone \/ v = PyStr("")

\* C3: for a non-empty destination, a fault raised by constructing the
\* OutboundCall or by start() never leaves start_outbound_call; the request
\* that met it logs exactly one error record and returns; and whatever earlier
\* requests met, a request whose collaborator is healthy is constructed and
\* started.
C3_FaultContained ==
    /\ escaped = 0
    /\ (cPc = "return" /\ reqTrace.faults > 0) =>
            /\ ~AbsentOrEmpty(cArg)
            /\ reqTrace.faults = 1
            /\ reqTrace.errors = 1
            /\ reqTrace.started = 0
    /\ (cPc = "return" /\ ~AbsentOrEmpty(cArg) /\ reqTrace.faults = 0) =>
            /\ reqTrace.constructed = 1
            /\ reqTrace.started = 1
            /\ reqTrace.errors = 0
            /\ started[Len(started)] = cArg.s

\* A request is started and returns after an earlier request's start() raised
\* (constructed, never started, one error record).
C3_Witness ==
    /\ cPc = "return"
    /\ reqTrace.started = 1
    /\ Len(constructed) = 2
    /\ Len(started) = 1
    /\ Len(errorLog) = 1
    /\ served = 1

\* C4: a request whose destination is None or "" never reaches the
\* constructor, start() or the except clause, and while it is served no call
\* is constructed or started, nothing is logged, no exception leaves, and the
\* process-wide configuration stays what it was.
C4_NoOp ==
    /\ [](/\ (cPc \in {"construct", "start", "unwind"} => ~AbsentOrEmpty(cArg))
          /\ ((cPc = "return" /\ AbsentOrEmpty(cArg)) => reqTrace = NewTrace)
          /\ config = DefaultConfig)
    /\ [][(cPc # "idle" /\ AbsentOrEmpty(cArg)) =>
            UNCHANGED <<constructed, started, errorLog, escaped, config>>]_vars

\* The empty destination has been served as a no-op after a real call.
C4_Witness ==
    /\ cPc = "return"
    /\ cArg = PyStr("")
    /\ Len(started) = 1

-----------------------------------------------------------------------------
(* Properties of the streaming path (SpecStream) *)

IsPrefix(a, b) == Len(a) <= Len(b) /\ SubSeq(b, 1, Len(a)) = a

\* The first (best) alternative of each result.
BestAlternatives(results) ==
    [k \in 1..Len(results) |-> results[k].alternatives[1].transcript]

RECURSIVE Concat(_)
Concat(strs) == IF Len(strs) = 0 THEN <<>> ELSE strs[1] \o Concat(Tail(strs))

\* C1: the transcript transcribe_audio_stream returns is the best alternative
\* of each non-partial result, in arrival order, joined by exactly one space
\* (the empty string when there was none).
C1_SpaceJoinedBest ==
    (sPc = "done" /\ sResult.kind = "returned") =>
        sResult.value = Join(SPACE, BestAlternatives(finalized))

\* C9: every handler step leaves the previous transcript as a prefix of the
\* new one; a step that finalizes nothing leaves it unchanged; what a step
\* adds is the text of the results it finalized, in their order, at the end.
C9_AppendOnly ==
    [][/\ IsPrefix(transcription, transcription')
       /\ (finalized' = finalized => transcription' = transcription)
       /\ LET added == SubSeq(finalized', Len(finalized) + 1, Len(finalized'))
          IN  transcription' =
                transcription \o
                Concat([k \in 1..Len(added) |-> ResultText(added[k])])]_vars

\* Two events were handled, one of which finalized nothing, and the other's
\* text is in the transcript.
C9_Witness ==
    /\ nEvents = 2
    /\ Len(finalized) = 1
    /\ transcription # <<>>

\* C6: transcribe_audio_stream opens at most one session, and once a provider
\* fault has occurred (at session start or while events are handled) it ends
\* by raising: it never hands a transcript to its caller.
C6_AllOrNothing ==
    /\ sessions <= 1
    /\ (sPc = "except" \/ sErrors > 0) => sResult.kind = "raised"
    /\ (sPc = "done" /\ sErrors > 0) => (sErrors = 1 /\ sResult.kind = "raised")
    /\ (sPc = "done" /\ sResult.kind = "returned") => sErrors = 0

\* The session failed after finalized text had been accumulated.
C6_Witness ==
    /\ sPc = "done"
    /\ sResult.kind = "raised"
    /\ Len(finalized) >= 2
    /\ transcription # <<>>
    /\ sessions = 1

-----------------------------------------------------------------------------
(* Properties of the batch path (SpecBatch, FairSpecBatch) *)

Terminal == {"COMPLETED", "FAILED"}

\* C2: a transcript is returned, and the result document fetched, only by an
\* invocation whose last status query returned COMPLETED.
C2_OnlyAfterCompleted ==
    \A i \in Invocations :
        /\ bResult[i].kind = "returned" => status[i] = "COMPLETED"
        /\ ops[i].fetches > 0 => status[i] = "COMPLETED"

\* An invocation returned a transcript after polling more than once.
C2_Witness ==
    \E i \in Invocations :
        /\ bResult[i].kind = "returned"
        /\ ops[i].slept
        /\ ops[i].fetches = 1

\* An invocation holds an active job: it submitted it and the provider has
\* not finished it.
Active(j) ==
    /\ ops[j].submitted
    /\ jobs[jobName[j]] \in {"QUEUED", "IN_PROGRESS"}

\* C5: the job name of an invocation never equals the name of another
\* invocation's active job.
C5_UniqueJobNames ==
    \A i, j \in Invocations :
        (i # j /\ jobName[i] # NoName /\ Active(j)) => jobName[i] # jobName[j]

\* C7: the job is submitted exactly once; a status query follows either the
\* submission directly or exactly one 5-unit wait; a wait follows only a query
\* that returned a non-terminal status; the result document is fetched exactly
\* once after COMPLETED was observed and never otherwise.
C7_PollDiscipline ==
    /\ [](\A i \in Invocations :
            /\ ops[i].submits <= 1
            /\ (bPc[i] \notin {"idle", "submit"} => ops[i].submits = 1)
            /\ ops[i].fetches <= 1
            /\ (ops[i].fetches = 1 => status[i] = "COMPLETED")
            /\ ((bPc[i] = "done" /\ status[i] = "COMPLETED") => ops[i].fetches = 1)
            /\ (bPc[i] = "poll" =>
                    \/ ops[i].last = "submit" /\ waited[i] = 0
                    \/ ops[i].last = "sleep" /\ waited[i] = 5))
    /\ [][\A i \in Invocations :
            /\ (ops'[i].last = "query" /\ ops[i].last # "query") =>
                    \/ ops[i].last = "submit" /\ waited[i] = 0
                    \/ ops[i].last = "sleep" /\ waited[i] = 5
            /\ (ops'[i].last = "sleep" /\ ops[i].last # "sleep") =>
                    /\ ops[i].last = "query"
                    /\ status[i] \notin Terminal
                    /\ waited'[i] = 5]_vars

\* An invocation waited between two queries and fetched its result once.
C7_Witness ==
    \E i \in Invocations :
        /\ bPc[i] = "done"
        /\ ops[i].slept
        /\ ops[i].fetches = 1
        /\ ops[i].submits = 1

\* C8: once a status query returned FAILED the invocation polls no more,
\* fetches nothing, returns no transcript and does not resubmit; it ends by
\* raising, with the error logged.
C8_FailedRaises ==
    \A i \in Invocations :
        status[i] = "FAILED" =>
            /\ bPc[i] = "done"
            /\ ops[i].last = "query"
            /\ ops[i].fetches = 0
            /\ ops[i].submits = 1
            /\ bResult[i].kind = "raised"
            /\ bErrors[i] = 1

\* An invocation observed FAILED and has ended.
C8_Witness ==
    \E i \in Invocations :
        /\ status[i] = "FAILED"
        /\ bPc[i] = "done"
        /\ bErrors[i] = 1

\* C10: an invocation has ended only with a terminal status observed or a
\* provider call raised; it leaves the polling loop only that way; a query
\* answered with a non-terminal status is followed by a wait and another
\* query; and (some runnable invocation always being scheduled, the provider
\* finishing the jobs it holds) every started invocation ends: from some
\* point on each invocation is either never started or has ended.
C10_Termination ==
    /\ [](\A i \in Invocations :
            bPc[i] = "done" => (status[i] \in Terminal \/ bResult[i].kind = "raised"))
    /\ [][\A i \in Invocations :
            /\ (bPc[i] \in {"poll", "sleep"} /\ bPc'[i] \notin {"poll", "sleep"}) =>
                    \/ status'[i] \in Terminal
                    \/ bPc'[i] = "done" /\ bResult'[i].kind = "raised"
            /\ (bPc[i] = "poll" /\ bPc'[i] # "poll" /\ bResult'[i].kind # "raised"
                    /\ status'[i] \notin Terminal) => bPc'[i] = "sleep"
            /\ (bPc[i] = "sleep" /\ bPc'[i] # "sleep") => bPc'[i] = "poll"]_vars
    /\ <>[](\A i \in Invocations : bPc[i] \in {"idle", "done"})

\* An invocation ended after it had waited in the loop.
C10_Witness ==
    \E i \in Invocations :
        /\ bPc[i] = "done"
        /\ ops[i].slept
        /\ status[i] \in Terminal

=============================================================================
